---------------------------- MODULE Spec2Model ----------------------------
(***************************************************************************)
(* Model of the stereo visualizer's analysis state (src/src/main.rs):      *)
(* MainState::new, load_sound, toggle_sound and EventHandler::update.      *)
(*                                                                         *)
(* Numbers.  The program computes in f32.  The model computes the same     *)
(* expressions over exact rationals [n |-> numerator, d |-> denominator],  *)
(* so every statement below is about the arithmetic the code writes down,  *)
(* free of f32 rounding.                                                   *)
(*                                                                         *)
(* Spectrum.  fft.process is the forward DFT of rustfft, unnormalised:     *)
(*   X[k] = SUM_n x[n] * exp(-2*pi*i*k*n/N),                               *)
(*   Re X[k] = SUM_n x[n] * cos(2*pi*k*n/N).                               *)
(* update reads only Re X[k].  For N = 1024 the cosines are rational for   *)
(* k = 0 (all 1) and k = N/4 (1, 0, -1, 0, ...); the model keeps exactly   *)
(* these bins of the N/2 the program keeps, every other bin having         *)
(* irrational twiddle factors.  All bins go through the same loop body.    *)
(***************************************************************************)
EXTENDS Integers, Sequences, FiniteSets, TLC

VARIABLES
    sound,        \* Option<audio::Source>: None, or its transport state
    sample_rate,  \* u32
    left_wave,    \* Vec<f32>
    right_wave,   \* Vec<f32>
    left_fft,     \* Vec<Complex<f32>>: real parts at the bins of Bins
    right_fft,
    left_rev,     \* Vec<f32>, one per bin
    right_rev,
    directions,   \* Vec<DirectionalSource>, one per bin
    ret,          \* the last call that returns a GameResult, and the result
    hist,         \* log: the spectra (real parts) of every analysed frame
    loads         \* number of load_sound calls so far

vars == << sound, sample_rate, left_wave, right_wave, left_fft, right_fft,
           left_rev, right_rev, directions, ret, hist, loads >>

---------------------------------------------------------------------------
(* Program constants *)

FftSize == 1024
I16Max == 32767
I16Min == -32768
MillisPerSec == 1000    \* Duration::as_secs_f32, the clock kept in ms
TickMillis == MillisPerSec \div 2

(* Bounds of the model *)

MaxFrames == 2      \* analysed frames in one run of Spec
MaxBinFrames == 3   \* analysed frames in one run of SpecBins
MaxLoads == 2       \* load_sound calls in one run
MaxElapsed == 2     \* playback clock, in ticks of TickMillis
MaxSplitLen == 3    \* length of the short decoded streams of SpecSplit

---------------------------------------------------------------------------
(* Exact rationals with a positive denominator; every operator but Quot and *)
(* Plus returns its result in lowest terms *)

Abs(a) == IF a < 0 THEN -a ELSE a

RECURSIVE GCD(_, _)
GCD(a, b) == IF b = 0 THEN a ELSE GCD(b, a % b)

Norm(n, d) ==
    LET g == GCD(Abs(n), d)
    IN  [n |-> n \div g, d |-> d \div g]

FromInt(a) == [n |-> a, d |-> 1]

Zero == FromInt(0)

One == FromInt(1)

RAdd(p, q) ==
    IF p.d = q.d
    THEN Norm(p.n + q.n, p.d)
    ELSE LET g == GCD(p.d, q.d)
         IN  Norm(p.n * (q.d \div g) + q.n * (p.d \div g), (p.d \div g) * q.d)

RNeg(p) == [n |-> -p.n, d |-> p.d]

RSub(p, q) == RAdd(p, RNeg(q))

RMul(p, q) ==
    LET g1 == GCD(Abs(p.n), q.d)
        g2 == GCD(Abs(q.n), p.d)
    IN  Norm((p.n \div g1) * (q.n \div g2), (p.d \div g2) * (q.d \div g1))

\* p / q for q > 0
RDiv(p, q) == RMul(p, [n |-> q.d, d |-> q.n])

RLe(p, q) ==
    LET g == GCD(p.d, q.d)
    IN  p.n * (q.d \div g) <= q.n * (p.d \div g)

RLt(p, q) == ~RLe(q, p)

RMax(p, q) == IF RLe(p, q) THEN q ELSE p

RAbs(p) == [n |-> Abs(p.n), d |-> p.d]

\* the quotient a / b as written, not reduced
Quot(a, b) == [n |-> a, d |-> b]

\* p + q, not reduced when the denominators already agree
Plus(p, q) ==
    IF p.d = q.d THEN [n |-> p.n + q.n, d |-> p.d] ELSE RAdd(p, q)

REq(p, q) == RLe(p, q) /\ RLe(q, p)

---------------------------------------------------------------------------
(* The bins of the spectrum the model keeps, of 0 .. FftSize/2 - 1 *)

Bins == {0, FftSize \div 4}

ZeroBins == [i \in Bins |-> Zero]

\* DirectionalSource::new
NewDirectionalSource == [dir |-> Zero, amp |-> Zero]

---------------------------------------------------------------------------
(* Decoded files: what audio::Source::new and rodio::Decoder::new give for *)
(* a path.  A channel is dc + tone * cos(pi*j/2) at frame j, with the      *)
(* value click at frame 0 instead.                                         *)

Cos4(j) == CASE j % 4 = 0 -> 1 [] j % 4 = 2 -> -1 [] OTHER -> 0

PatSample(pat, j) ==
    IF j = 0 /\ pat.click # 0 THEN pat.click ELSE pat.dc + pat.tone * Cos4(j)

Pat(dc, tone, click) == [dc |-> dc, tone |-> tone, click |-> click]

Interleaved(len, lpat, rpat) ==
    [i \in 1..len |->
        IF (i - 1) % 2 = 0 THEN PatSample(lpat, (i - 1) \div 2)
                           ELSE PatSample(rpat, (i - 1) \div 2)]

File(openable, decodable, channels, rate, samples) ==
    [openable |-> openable, decodable |-> decodable, channels |-> channels,
     sample_rate |-> rate, samples |-> samples]

Silent == Pat(0, 0, 0)

Files ==
    { File(FALSE, FALSE, 0, 0, << >>),
      File(TRUE, FALSE, 0, 0, << >>),
      File(TRUE, TRUE, 1, 2, Interleaved(2 * FftSize, Pat(40, 0, 0), Pat(40, 0, 0))),
      File(TRUE, TRUE, 6, 2, Interleaved(2 * FftSize, Pat(40, 0, 0), Pat(40, 0, 0))),
      File(TRUE, TRUE, 2, 1, Interleaved(2 * FftSize + 2, Pat(40, 20, 0), Pat(40, 20, 0))),
      File(TRUE, TRUE, 2, 2, Interleaved(2 * FftSize + 2, Silent, Pat(40, 0, 0))),
      File(TRUE, TRUE, 2, 2, Interleaved(2 * FftSize + 3, Pat(48, 8, I16Min), Pat(8, 0, I16Max))) }

\* all sequences over S of length at most n
RECURSIVE SeqsUpTo(_, _)
SeqsUpTo(S, n) ==
    IF n = 0 THEN { << >> }
    ELSE LET shorter == SeqsUpTo(S, n - 1)
         IN  shorter \cup { Append(q, x) : q \in shorter, x \in S }

SampleValues == {I16Min, -I16Max, -1, 0, 1, I16Max}

ShortFiles ==
    { File(TRUE, TRUE, ch, 2, q) : ch \in {1, 2, 6}, q \in SeqsUpTo(SampleValues, MaxSplitLen) }

---------------------------------------------------------------------------
(* The playback transport of ggez's audio::Source *)

None == [state |-> "none", elapsed |-> 0]

NewSource == [state |-> "stopped", elapsed |-> 0]

Playing(snd) == snd.state = "playing"

Stopped(snd) == snd.state = "stopped"

---------------------------------------------------------------------------
(* load_sound *)

\* amp as f32 / i16::MAX as f32
Normalize(amp) == Quot(amp, I16Max)

\* samples.iter().enumerate().filter_map(idx % 2 == parity).map(..).collect()
Channel(samples, parity) ==
    LET kept == {idx \in 0..(Len(samples) - 1) : idx % 2 = parity}
    IN  [j \in 1..Cardinality(kept) |-> Normalize(samples[2 * (j - 1) + parity + 1])]

\* variant: any source with samples is accepted
AnyChannels(file) == file.channels >= 1

\* the guard of the first match arm: source.channels() == 2
Stereo(file) == file.channels = 2

\* what a call returns; frame says what an update did with its frame
Return(op, val, frame) == [op |-> op, val |-> val, frame |-> frame]

\* variant: a load starts the analysis afresh
LoadAnalysisStateReset ==
    /\ left_rev' = ZeroBins
    /\ right_rev' = ZeroBins
    /\ directions' = [i \in Bins |-> NewDirectionalSource]
    /\ UNCHANGED << left_fft, right_fft, hist >>

\* load_sound assigns none of the analysis fields
LoadAnalysisState ==
    UNCHANGED << left_fft, right_fft, left_rev, right_rev, directions, hist >>

LoadSound(file) ==
    /\ loads' = loads + 1
    /\ LoadAnalysisState
    /\ IF ~file.openable
       THEN \* audio::Source::new fails: the ? returns after the clears
            /\ sound' = None
            /\ left_wave' = << >>
            /\ right_wave' = << >>
            /\ UNCHANGED sample_rate
            /\ ret' = Return("load_sound", "ResourceError", "-")
       ELSE /\ sound' = NewSource
            /\ IF ~file.decodable
               THEN /\ left_wave' = << >>
                    /\ right_wave' = << >>
                    /\ UNCHANGED sample_rate
                    /\ ret' = Return("load_sound", "FilesystemError", "-")
               ELSE IF Stereo(file)
               THEN /\ sample_rate' = file.sample_rate
                    /\ left_wave' = Channel(file.samples, 0)
                    /\ right_wave' = Channel(file.samples, 1)
                    /\ ret' = Return("load_sound", "Ok", "-")
               ELSE /\ left_wave' = << >>
                    /\ right_wave' = << >>
                    /\ UNCHANGED sample_rate
                    /\ ret' = Return("load_sound", "AudioError", "-")

---------------------------------------------------------------------------
(* toggle_sound *)

ToggleSound ==
    /\ sound' =
         IF sound = None THEN sound
         ELSE IF Playing(sound) THEN [sound EXCEPT !.state = "paused"]
         ELSE IF Stopped(sound) THEN [state |-> "playing", elapsed |-> 0]
         ELSE [sound EXCEPT !.state = "playing"]
    /\ UNCHANGED << sample_rate, left_wave, right_wave, left_fft, right_fft,
                    left_rev, right_rev, directions, ret, hist, loads >>

---------------------------------------------------------------------------
(* The transport runs by itself while playing: the clock advances and the  *)
(* track ends.  The program reads the clock of a playing source only, and  *)
(* play() restarts it; a stopped source is kept with its clock at 0.       *)

Tick ==
    /\ Playing(sound)
    /\ sound.elapsed < MaxElapsed * TickMillis
    /\ sound' = [sound EXCEPT !.elapsed = @ + TickMillis]
    /\ UNCHANGED << sample_rate, left_wave, right_wave, left_fft, right_fft,
                    left_rev, right_rev, directions, ret, hist, loads >>

Finish ==
    /\ Playing(sound)
    /\ sound' = NewSource
    /\ UNCHANGED << sample_rate, left_wave, right_wave, left_fft, right_fft,
                    left_rev, right_rev, directions, ret, hist, loads >>

---------------------------------------------------------------------------
(* update *)

\* (time * self.sample_rate as f32).floor() as usize, elapsed in ms
Offset(elapsed, rate) == (elapsed * rate) \div MillisPerSec

\* offset + self.left_fft.len() <= self.left_wave.len()
Fits(offset, wave) == offset + FftSize <= Len(wave)

\* &wave[offset..offset + N]
Window(wave, offset) == SubSeq(wave, offset + 1, offset + FftSize)

\* cos(2*pi*k*n/N) for the bins of Bins, where 4*k*n/N is an integer
CosTw(k, n) == Cos4((4 * k * n) \div FftSize)

\* SUM of w[n+1] * cos(2*pi*k*n/N) for n + 1 in lo..hi
RECURSIVE SumRe(_, _, _, _)
SumRe(w, k, lo, hi) ==
    IF lo = hi
    THEN [n |-> w[lo].n * CosTw(k, lo - 1), d |-> w[lo].d]
    ELSE LET mid == (lo + hi) \div 2
         IN  Plus(SumRe(w, k, lo, mid), SumRe(w, k, mid + 1, hi))

\* fft.process(input, output): the real parts of the output
Process(w) ==
    [k \in Bins |-> LET s == SumRe(w, k, 1, FftSize) IN Norm(s.n, s.d)]

\* variant: the .abs() left out
LeftAmpSigned(re) == re

\* self.left_fft[idx].re.abs()
LeftAmp(re) == RAbs(re)

\* self.right_fft[idx].re.abs()
RightAmp(re) == RAbs(re)

\* variant: the coefficient taken as the share kept, not the share replaced
SmoothSlow(rev, amp) == RAdd(rev, RMul(RSub(amp, rev), Quot(1, 10)))

\* rev += (amp - rev) * 0.9
Smooth(rev, amp) == RAdd(rev, RMul(RSub(amp, rev), Quot(9, 10)))

\* variant: the floor of 1.0 put on the amplitude itself
SourceAmpFloored(l, r) == RMax(RMax(l, r), One)

\* variant: min for max
SourceAmpMin(l, r) == IF RLe(l, r) THEN l ELSE r

\* source.amp = left_rev.max(right_rev)
SourceAmp(l, r) == RMax(l, r)

\* variant: the channels swapped
SourceDirSwapped(l, r, amp) == RDiv(RSub(l, r), RMax(amp, One))

\* source.dir = (right_rev - left_rev) / source.amp.max(1.0)
SourceDir(l, r, amp) == RDiv(RSub(r, l), RMax(amp, One))

\* the loop over the bins, on the spectra lf and rf that fft.process wrote
Estimate(lf, rf) ==
    LET lr == [i \in Bins |-> Smooth(left_rev[i], LeftAmp(lf[i]))]
        rr == [i \in Bins |-> Smooth(right_rev[i], RightAmp(rf[i]))]
    IN  /\ left_fft' = lf
        /\ right_fft' = rf
        /\ left_rev' = lr
        /\ right_rev' = rr
        /\ directions' =
             [i \in Bins |->
                 LET a == SourceAmp(lr[i], rr[i])
                 IN  [dir |-> SourceDir(lr[i], rr[i], a), amp |-> a]]
        /\ hist' = Append(hist, [l |-> lf, r |-> rf])

\* variant: a frame without analysis lets the picture fall back to rest
IdleDecay ==
    /\ directions' = [i \in Bins |-> NewDirectionalSource]
    /\ UNCHANGED << left_fft, right_fft, left_rev, right_rev, hist >>

\* a frame without analysis: update falls through and assigns nothing
Idle == UNCHANGED << left_fft, right_fft, left_rev, right_rev, directions, hist >>

CurrentOffset == Offset(sound.elapsed, sample_rate)

\* variant: the sound.playing() test left out
AnalysingWhilePaused ==
    /\ sound # None
    /\ Fits(CurrentOffset, left_wave)
    /\ Fits(CurrentOffset, right_wave)

\* the guards of the analysis
Analysing ==
    /\ sound # None
    /\ Playing(sound)
    /\ Fits(CurrentOffset, left_wave)
    /\ Fits(CurrentOffset, right_wave)

Update ==
    /\ UNCHANGED << sound, sample_rate, left_wave, right_wave, loads >>
    /\ IF Analysing
       THEN /\ Len(hist) < MaxFrames
            /\ Estimate(Process(Window(left_wave, CurrentOffset)),
                        Process(Window(right_wave, CurrentOffset)))
            /\ ret' = Return("update", "Ok", "analysed")
       ELSE /\ Idle
            /\ ret' = Return("update", "Ok",
                             IF sound = None THEN "no_sound"
                             ELSE IF ~Playing(sound) THEN "not_playing"
                             ELSE "underrun")

---------------------------------------------------------------------------
(* MainState::new, then any calls *)

Init ==
    /\ sound = None
    /\ sample_rate = 0
    /\ left_wave = << >>
    /\ right_wave = << >>
    /\ left_fft = ZeroBins
    /\ right_fft = ZeroBins
    /\ left_rev = ZeroBins
    /\ right_rev = ZeroBins
    /\ directions = [i \in Bins |-> NewDirectionalSource]
    /\ ret = Return("new", "Ok", "-")
    /\ hist = << >>
    /\ loads = 0

Load == loads < MaxLoads /\ \E file \in Files : LoadSound(file)

Next == Load \/ ToggleSound \/ Tick \/ Finish \/ Update

Spec == Init /\ [][Next]_vars

---------------------------------------------------------------------------
(* The Channel Splitter alone: one load_sound of any short decoded stream *)

LoadShort == loads < 1 /\ \E file \in ShortFiles : LoadSound(file)

SpecSplit == Init /\ [][LoadShort]_vars

---------------------------------------------------------------------------
(* The Directional Estimator alone: the loop of update on any spectra that *)
(* fft.process may have written, frame after frame                         *)

Half == Quot(1, 2)

Spectra ==
    { [i \in Bins |-> Zero],
      [i \in Bins |-> IF i = 0 THEN Quot(3, 2) ELSE Zero],
      [i \in Bins |-> IF i = 0 THEN Quot(-3, 2) ELSE FromInt(40)],
      [i \in Bins |-> IF i = 0 THEN FromInt(40) ELSE RNeg(Half)] }

UpdateBins ==
    /\ Len(hist) < MaxBinFrames
    /\ \E lf \in Spectra, rf \in Spectra : Estimate(lf, rf)
    /\ ret' = Return("update", "Ok", "analysed")
    /\ UNCHANGED << sound, sample_rate, left_wave, right_wave, loads >>

SpecBins == Init /\ [][UpdateBins]_vars

---------------------------------------------------------------------------
(* Properties *)

K == Len(hist)

Sides == {"l", "r"}

\* the real part logged for frame f, channel side, bin i
HistRe(f, side, i) == IF side = "l" THEN hist[f].l[i] ELSE hist[f].r[i]

\* the smoothed value of channel side, bin i
Rev(side, i) == IF side = "l" THEN left_rev[i] ELSE right_rev[i]

RECURSIVE Pow10(_)
Pow10(k) == IF k = 0 THEN 1 ELSE 10 * Pow10(k - 1)

\* M * (1 - 0.1^k)
ClosedForm(M, k) == RMul(M, RSub(One, Quot(1, Pow10(k))))

\* every analysed frame so far had the magnitude of the first one in this bin
ConstMag(side, i) ==
    /\ K >= 1
    /\ \A f \in 1..K : REq(RAbs(HistRe(f, side, i)), RAbs(HistRe(1, side, i)))

Mag(side, i) == RAbs(HistRe(1, side, i))

\* the smoothing applied to the first k frames of the log, from 0
RECURSIVE Replay(_, _, _)
Replay(side, i, k) ==
    IF k = 0 THEN Zero
    ELSE Smooth(Replay(side, i, k - 1), RAbs(HistRe(k, side, i)))

Underrun ==
    /\ sound # None
    /\ Playing(sound)
    /\ ~(Fits(CurrentOffset, left_wave) /\ Fits(CurrentOffset, right_wave))

InUnit(x) == RLe(RNeg(One), x) /\ RLe(x, One)

SomeAmp == \E i \in Bins : directions[i].amp # Zero

\* C1: an update while the sound plays and the window does not fit in both
\* buffers leaves every Directional Source as it was and returns Ok.
C1_FreezeOnUnderrun ==
    [][(Underrun /\ Update) => (directions' = directions /\ ret'.val = "Ok")]_vars

\* an update has just frozen a non-trivial picture because the right buffer
\* alone is too short
C1_Witness ==
    /\ ret.op = "update"
    /\ ret.frame = "underrun"
    /\ Underrun
    /\ Fits(CurrentOffset, left_wave)
    /\ ~Fits(CurrentOffset, right_wave)
    /\ SomeAmp

\* C2: load_sound of a stereo stream of length L gives left_wave of length
\* ceil(L/2) and right_wave of length floor(L/2), every value in [-1, 1].
C2_SplitterRange ==
    [][\A file \in ShortFiles :
          (Stereo(file) /\ LoadSound(file)) =>
              /\ Len(left_wave') = (Len(file.samples) + 1) \div 2
              /\ Len(right_wave') = Len(file.samples) \div 2
              /\ \A j \in 1..Len(left_wave') : InUnit(left_wave'[j])
              /\ \A j \in 1..Len(right_wave') : InUnit(right_wave'[j])]_vars

\* C2, the part that holds: the lengths, the left channel made of the even
\* and the right of the odd indices, every value sample / 32767, which is
\* in [-32768/32767, 1].
C2_SplitterLengths ==
    [][\A file \in ShortFiles :
          (Stereo(file) /\ LoadSound(file)) =>
              /\ Len(left_wave') = (Len(file.samples) + 1) \div 2
              /\ Len(right_wave') = Len(file.samples) \div 2
              /\ \A j \in 1..Len(left_wave') :
                    /\ REq(left_wave'[j], Quot(file.samples[2 * j - 1], I16Max))
                    /\ RLe(Quot(I16Min, I16Max), left_wave'[j])
                    /\ RLe(left_wave'[j], One)
              /\ \A j \in 1..Len(right_wave') :
                    /\ REq(right_wave'[j], Quot(file.samples[2 * j], I16Max))
                    /\ RLe(Quot(I16Min, I16Max), right_wave'[j])
                    /\ RLe(right_wave'[j], One)]_vars

\* C3: load_sound of a decoded source whose channel count is not 2 returns
\* an error and leaves left_wave and right_wave empty.
C3_RejectsNonStereo ==
    [][\A file \in Files :
          (file.openable /\ file.decodable /\ file.channels # 2 /\ LoadSound(file)) =>
              /\ ret'.op = "load_sound"
              /\ ret'.val # "Ok"
              /\ left_wave' = << >>
              /\ right_wave' = << >>]_vars

\* a non-stereo file was refused after frames of an earlier file were analysed
C3_Witness ==
    /\ ret = Return("load_sound", "AudioError", "-")
    /\ left_wave = << >>
    /\ right_wave = << >>
    /\ K >= 1

\* C4: a bin whose magnitude was the same M in all k analysed frames holds
\* M * (1 - 0.1^k) after the k-th, never more than M, and a further frame
\* of magnitude M does not lower it.
C4_SmoothingClosedForm ==
    /\ [](\A side \in Sides, i \in Bins :
            ConstMag(side, i) =>
                /\ REq(Rev(side, i), ClosedForm(Mag(side, i), K))
                /\ RLe(Rev(side, i), Mag(side, i)))
    /\ [][\A side \in Sides, i \in Bins :
            (K' = K + 1 /\ ConstMag(side, i)') =>
                /\ RLe(Rev(side, i), Rev(side, i)')
                /\ RLe(Rev(side, i)', Mag(side, i)')]_vars

\* three frames of one non-zero magnitude, its sign changing
C4_Witness ==
    \E side \in Sides, i \in Bins :
        /\ K >= 3
        /\ ConstMag(side, i)
        /\ Mag(side, i) # Zero
        /\ \E f \in 1..K : HistRe(f, side, i) # HistRe(1, side, i)

\* C5: a bin that was silent on both channels in every analysed frame has
\* amplitude 0 and direction 0, and the divisor max(amplitude, 1.0) is
\* positive for every bin.
C5_SilenceStable ==
    \A i \in Bins :
        /\ RLt(Zero, RMax(directions[i].amp, One))
        /\ (\A f \in 1..K : hist[f].l[i] = Zero /\ hist[f].r[i] = Zero) =>
               (directions[i].amp = Zero /\ directions[i].dir = Zero)

\* two frames in which one bin was silent and another was not
C5_Witness ==
    /\ K >= 2
    /\ \E i \in Bins : \A f \in 1..K : hist[f].l[i] = Zero /\ hist[f].r[i] = Zero
    /\ SomeAmp

\* C6: when both channels gave the same spectrum in every analysed frame,
\* left_rev[i] = right_rev[i] and direction[i] = 0 for every bin.
C6_CenteredSignal ==
    (K >= 1 /\ \A f \in 1..K : hist[f].l = hist[f].r) =>
        \A i \in Bins : REq(left_rev[i], right_rev[i]) /\ directions[i].dir = Zero

\* two frames of a common spectrum with a negative real part
C6_Witness ==
    /\ K >= 2
    /\ \A f \in 1..K : hist[f].l = hist[f].r
    /\ \E f \in 1..K, i \in Bins : RLt(hist[f].l[i], Zero)
    /\ SomeAmp

\* C7: a bin whose left channel was silent in every analysed frame and whose
\* right channel has energy in the latest has amplitude > 0 and direction > 0.
C7_RightSkewed ==
    \A i \in Bins :
        (K >= 1 /\ (\A f \in 1..K : hist[f].l[i] = Zero) /\ hist[K].r[i] # Zero) =>
            (RLt(Zero, directions[i].amp) /\ RLt(Zero, directions[i].dir))

\* the right channel alone, in a frame after one where it was silent too
C7_Witness ==
    \E i \in Bins :
        /\ K >= 2
        /\ \A f \in 1..K : hist[f].l[i] = Zero
        /\ hist[1].r[i] = Zero
        /\ hist[K].r[i] # Zero

\* C8: an update with no sound, or with a sound that is not playing, leaves
\* directions, left_rev and right_rev as they were; they change only in a
\* step taken while the sound plays and the window fits both buffers.
C8_IdleFreezes ==
    [][/\ ((sound = None \/ ~Playing(sound)) /\ Update) =>
              (directions' = directions /\ left_rev' = left_rev /\ right_rev' = right_rev)
       /\ (directions' # directions \/ left_rev' # left_rev \/ right_rev' # right_rev
              \/ K' # K) => Analysing]_vars

\* an update of a paused sound whose window fits, on a non-trivial picture
C8_Witness ==
    /\ ret.op = "update"
    /\ ret.frame = "not_playing"
    /\ sound.state = "paused"
    /\ Fits(CurrentOffset, left_wave)
    /\ Fits(CurrentOffset, right_wave)
    /\ SomeAmp

\* C9: load_sound, failing or not, leaves left_rev, right_rev and directions
\* as they were; they are what the smoothing of every frame analysed since
\* construction gives from 0, whatever was loaded in between.
C9_ReloadKeepsAnalysisState ==
    /\ [](\A side \in Sides, i \in Bins : Rev(side, i) = Replay(side, i, K))
    /\ [][loads' # loads =>
            (left_rev' = left_rev /\ right_rev' = right_rev /\ directions' = directions)]_vars

\* a frame of a second file has been analysed on top of one of the first
C9_Witness ==
    /\ loads >= 2
    /\ ret.frame = "analysed"
    /\ K >= 2
    /\ hist[K] # hist[K - 1]
    /\ \E i \in Bins : left_rev[i] # Zero /\ hist[K].l[i] = Zero

\* C10: in every reachable state left_rev[i] >= 0, right_rev[i] >= 0,
\* amplitude[i] >= 0 and -1 <= direction[i] <= 1.
C10_OutputBounds ==
    \A i \in Bins :
        /\ RLe(Zero, left_rev[i])
        /\ RLe(Zero, right_rev[i])
        /\ RLe(Zero, directions[i].amp)
        /\ InUnit(directions[i].dir)

\* a picture with an amplitude above the floor of 1.0, leaning left in one
\* bin, from a spectrum with a negative real part
C10_Witness ==
    /\ \E i \in Bins : RLt(One, directions[i].amp) /\ RLt(directions[i].dir, Zero)
    /\ \E f \in 1..K, i \in Bins : RLt(hist[f].l[i], Zero)

=============================================================================
